---- MODULE Spec2Model ----
(***************************************************************************)
(* Query pipeline of the scheduling assistant (backend/routes/ollama.py):  *)
(* query normalisation, calendar and policy context, the generation call,  *)
(* the interaction log, the interpretation of the generated text and the   *)
(* application of the embedded change-list to the calendar store.          *)
(*                                                                         *)
(* Time is counted in whole hours since 2025-04-01 00:00 UTC: day d, hour  *)
(* h is the integer d * 24 + h.                                            *)
(***************************************************************************)
EXTENDS Integers, Sequences, FiniteSets, TLC

\* ------------------------------------------------------------------------
\* Bounds of the model
\* ------------------------------------------------------------------------
MaxBatch == 2
MaxShifts == 2
MaxRequests == 1
MaxSnapshots == 1
MaxReindex == 2
MaxWords == 2
MaxConcurrent == 2

\* None of Python, for a string, a date, an employee reference and a list
None == "None"
NoDate == -1
NoEmployee == 0

\* ------------------------------------------------------------------------
\* Employee directory (read-only for the pipeline)
\* ------------------------------------------------------------------------
Employees ==
  { [id |-> 1, name |-> "Paul Rocco"],
    [id |-> 2, name |-> "Dana Lee"] }

\* A variant of EmployeeByName that falls back to the first employee of the
\* directory when no name matches
EmployeeByName_first_row(emp_name) ==
  IF \E e \in Employees : e.name = emp_name
  THEN (CHOOSE e \in Employees : e.name = emp_name).id
  ELSE 1

\* Employee.query.filter_by(name=emp_name).first(): exact match on the name
EmployeeByName(emp_name) ==
  IF \E e \in Employees : e.name = emp_name
  THEN (CHOOSE e \in Employees : e.name = emp_name).id
  ELSE NoEmployee

EmployeeName(emp_id) ==
  IF \E e \in Employees : e.id = emp_id
  THEN (CHOOSE e \in Employees : e.id = emp_id).name
  ELSE "Unassigned"

\* ------------------------------------------------------------------------
\* Dates and hour windows
\* ------------------------------------------------------------------------
\* datetime.strptime(date_str, "%Y-%m-%d"): the day number, or -1 for the
\* ValueError of a string that is not in that format
StrpTime(date_str) ==
  CASE date_str = "2025-04-01" -> 0
    [] date_str = "2025-04-02" -> 1
    [] OTHER -> -1

At(day, hour) == day * 24 + hour

ShiftTypes == {"Morning", "Afternoon", "Evening", "Night"}

\* start_hour, end_hour of apply_schedule_updates (9, 17 is its default)
StartHour(shift_type) ==
  CASE shift_type = "Morning" -> 5
    [] shift_type = "Afternoon" -> 12
    [] shift_type = "Evening" -> 16
    [] shift_type = "Night" -> 21
    [] OTHER -> 9

EndHour(shift_type) ==
  CASE shift_type = "Morning" -> 12
    [] shift_type = "Afternoon" -> 16
    [] shift_type = "Evening" -> 21
    [] shift_type = "Night" -> 5
    [] OTHER -> 17

\* start_time of the entry written for (day, shift_type)
StartTime(day, shift_type) == At(day, StartHour(shift_type))

\* end_time: the night shift ends on the following day
EndTime(day, shift_type) ==
  IF shift_type = "Night"
  THEN At(day + 1, EndHour(shift_type))
  ELSE At(day, EndHour(shift_type))

\* ------------------------------------------------------------------------
\* Calendar entries
\* ------------------------------------------------------------------------
\* A variant of ValidTimes for a Shift class without the validator
ValidTimes_unchecked(start, end) == TRUE

\* Shift.validate_end_time: a pair is accepted when end is after start
ValidTimes(start, end) == end > start

\* A variant of ExistingShifts whose window excludes its own start
ExistingShifts_open_start(S, emp, start, end) ==
  { s \in S : s.employee_id = emp /\ s.start_time > start /\ s.start_time < end }

\* Shift.query.filter(employee_id == emp, start_time >= start, start_time < end)
ExistingShifts(S, emp, start, end) ==
  { s \in S : s.employee_id = emp /\ s.start_time >= start /\ s.start_time < end }

\* order_by(Shift.start_time).all(): the entries of S as a sequence ordered by
\* start_time (entries with equal start in id order)
RECURSIVE OrderByStart(_)
OrderByStart(S) ==
  IF S = {} THEN << >>
  ELSE LET m == CHOOSE s \in S :
                  \A t \in S : s.start_time < t.start_time
                               \/ (s.start_time = t.start_time /\ s.id <= t.id)
       IN << m >> \o OrderByStart(S \ {m})

\* ------------------------------------------------------------------------
\* Query texts: a query is the sequence of its words
\* ------------------------------------------------------------------------
Q_MOST == << "Who", "is", "working", "the", "most", "morning", "shifts", "this", "month" >>
Q_HELLO == << "hello" >>
Q_CALLOFF == << "Dana Lee", "called", "off", "April", "1", "evening" >>
Q_LIST == << "list", "shifts", "April", "1" >>
Q_APPROVE == << "yes", "approve", "Paul Rocco", "afternoon", "April", "2" >>
Q_EMPTY == << >>
Q_MONTH == << "schedule", "for", "April", "2025" >>
Q_MONTH_MORNING == << "morning", "schedule", "for", "April", "2025" >>

Queries == { Q_MOST, Q_HELLO, Q_CALLOFF, Q_LIST, Q_APPROVE, Q_EMPTY }

\* str.lower() on one word
Lower(w) ==
  CASE w = "Who" -> "who"
    [] w = "April" -> "april"
    [] w = "Dana Lee" -> "dana lee"
    [] w = "Paul Rocco" -> "paul rocco"
    [] w = "Morning" -> "morning"
    [] w = "Afternoon" -> "afternoon"
    [] w = "Evening" -> "evening"
    [] w = "Night" -> "night"
    [] w = "MoRnInG" -> "morning"
    [] w = "AM" -> "am"
    [] w = "PM" -> "pm"
    [] w = "Overnight" -> "overnight"
    [] OTHER -> w

LowerText(q) == [ i \in DOMAIN q |-> Lower(q[i]) ]

\* re.search(r"\bw1 w2 ...\b", q): the words of the phrase occur in a row
HasPhrase(q, phrase) ==
  \E i \in 1..Len(q) :
     /\ i + Len(phrase) - 1 <= Len(q)
     /\ \A j \in 1..Len(phrase) : q[i + j - 1] = phrase[j]

\* "kw" in text: kw is a substring of some word of the text
SubstringOf(kw, w) ==
  \/ w = kw
  \/ << kw, w >> \in { << "night", "overnight" >>, << "night", "tonight" >>,
                       << "morning", "mornings" >> }

HasSubstring(q, kw) == \E i \in 1..Len(q) : SubstringOf(kw, q[i])

\* NLU.SHIFT_TYPE_PATTERNS, in dictionary order
SHIFT_TYPE_PATTERNS ==
  << [shift |-> "Morning", patterns |-> { << "morning" >>, << "am", "shift" >>, << "day", "shift" >> }],
     [shift |-> "Afternoon", patterns |-> { << "afternoon" >> }],
     [shift |-> "Evening", patterns |-> { << "evening" >>, << "pm", "shift" >> }],
     [shift |-> "Night", patterns |-> { << "night" >>, << "overnight" >> }] >>

\* NLU.INTENT_PATTERNS, in dictionary order
INTENT_PATTERNS ==
  << [intent |-> "query", patterns |-> { << "who", "works" >>, << "who", "is", "working" >>, << "list" >> }],
     [intent |-> "replace", patterns |-> { << "called", "off" >>, << "replace" >>, << "need", "someone", "else" >> }],
     [intent |-> "recommend", patterns |-> { << "recommend" >>, << "suggest" >> }],
     [intent |-> "approve", patterns |-> { << "approve" >>, << "yes" >>, << "confirm" >> }] >>

\* NLU.extract_shift_type: the first category one of whose patterns matches
\* A variant of extract_shift_type that matches the patterns against the text
\* as typed
extract_shift_type_cased(query) ==
  LET q == query
      hit(k) == \E pat \in SHIFT_TYPE_PATTERNS[k].patterns : HasPhrase(q, pat)
  IN IF \E k \in DOMAIN SHIFT_TYPE_PATTERNS : hit(k)
     THEN SHIFT_TYPE_PATTERNS[CHOOSE k \in DOMAIN SHIFT_TYPE_PATTERNS :
                                 hit(k) /\ \A j \in 1..(k - 1) : ~hit(j)].shift
     ELSE None

extract_shift_type(query) ==
  LET q == LowerText(query)
      hit(k) == \E pat \in SHIFT_TYPE_PATTERNS[k].patterns : HasPhrase(q, pat)
  IN IF \E k \in DOMAIN SHIFT_TYPE_PATTERNS : hit(k)
     THEN SHIFT_TYPE_PATTERNS[CHOOSE k \in DOMAIN SHIFT_TYPE_PATTERNS :
                                 hit(k) /\ \A j \in 1..(k - 1) : ~hit(j)].shift
     ELSE None

\* NLU.extract_intent: the first intent one of whose patterns matches
extract_intent(query) ==
  LET q == LowerText(query)
      hit(k) == \E pat \in INTENT_PATTERNS[k].patterns : HasPhrase(q, pat)
  IN IF \E k \in DOMAIN INTENT_PATTERNS : hit(k)
     THEN INTENT_PATTERNS[CHOOSE k \in DOMAIN INTENT_PATTERNS :
                             hit(k) /\ \A j \in 1..(k - 1) : ~hit(j)].intent
     ELSE "unknown"

\* NLU.extract_employee_names: the directory names that occur in the query
extract_employee_names(query) ==
  { e.name : e \in { d \in Employees : HasSubstring(LowerText(query), Lower(d.name)) } }

\* rag_helpers.parse_shift_type_from_query: keyword containment, in if/elif order
parse_shift_type_from_query(text) ==
  LET t == LowerText(text)
  IN IF HasSubstring(t, "morning") \/ HasPhrase(t, << "am", "shift" >>)
                                   \/ HasPhrase(t, << "day", "shift" >>)
     THEN "Morning"
     ELSE IF HasSubstring(t, "afternoon")
     THEN "Afternoon"
     ELSE IF HasSubstring(t, "evening") \/ HasPhrase(t, << "pm", "shift" >>)
     THEN "Evening"
     ELSE IF HasSubstring(t, "night") \/ HasSubstring(t, "overnight")
     THEN "Night"
     ELSE None

\* The day a "Month Day" pair of words names (April of the current year)
DayNumber(w) ==
  CASE w = "1" -> 0
    [] w = "2" -> 1
    [] OTHER -> -1

\* The current UTC date, and the days of the current month (April)
Today == 0
MonthDays == 30
MonthOf(day) == IF day < MonthDays THEN 4 ELSE 5

\* The dates a date search finds in the text, in text order
RECURSIVE FoundDates(_, _)
FoundDates(q, i) ==
  IF i > Len(q) THEN << >>
  ELSE IF q[i] = "april" /\ i < Len(q) /\ DayNumber(q[i + 1]) >= 0
       THEN << DayNumber(q[i + 1]) >> \o FoundDates(q, i + 2)
       ELSE IF q[i] = "april" /\ i < Len(q) /\ q[i + 1] = "2025"
       THEN << Today >> \o FoundDates(q, i + 2)
       ELSE IF q[i] = "today" THEN << Today >> \o FoundDates(q, i + 1)
       ELSE IF q[i] = "tomorrow" THEN << Today + 1 >> \o FoundDates(q, i + 1)
       ELSE FoundDates(q, i + 1)

\* dateparser.search.search_dates: the dates found; it returns None, here the
\* empty sequence, when it finds none
search_dates(query) == FoundDates(LowerText(query), 1)

\* NLU.extract_dates: "this month" gives the first and last day of the month;
\* otherwise list(search_dates(query)), which raises TypeError on None
extract_dates(query) ==
  IF HasPhrase(LowerText(query), << "this", "month" >>)
  THEN [raised |-> FALSE, start |-> 0, end |-> MonthDays - 1]
  ELSE LET dates == search_dates(query)
       IN IF dates = << >> THEN [raised |-> TRUE, start |-> NoDate, end |-> NoDate]
          ELSE IF Len(dates) = 1
               THEN [raised |-> FALSE, start |-> dates[1], end |-> dates[1]]
               ELSE [raised |-> FALSE, start |-> dates[1], end |-> dates[2]]

\* (\d{1,2}) after a month name: the day the first two digits of the word name
RegexDay(w) ==
  CASE w = "1" -> 0
    [] w = "2" -> 1
    [] w = "2025" -> 19
    [] OTHER -> -1

\* rag_helpers.parse_date_from_query: "Month Day", then "today", "tomorrow"
parse_date_from_query(text) ==
  LET t == LowerText(text)
      md(i) == t[i] = "april" /\ i < Len(t) /\ RegexDay(t[i + 1]) >= 0
  IN IF \E i \in 1..Len(t) : md(i)
     THEN RegexDay(t[(CHOOSE i \in 1..Len(t) : md(i) /\ \A j \in 1..(i - 1) : ~md(j)) + 1])
     ELSE IF HasSubstring(t, "today") THEN Today
     ELSE IF HasSubstring(t, "tomorrow") THEN Today + 1
     ELSE NoDate

\* rag_helpers.parse_month_year_from_query: a month name followed by a
\* four-digit year
parse_month_year_from_query(text) ==
  IF HasPhrase(LowerText(text), << "april", "2025" >>)
  THEN [year |-> 2025, month |-> 4]
  ELSE [year |-> 0, month |-> 0]

\* ------------------------------------------------------------------------
\* Calendar context (utils/rag_helpers.py)
\* ------------------------------------------------------------------------
\* "\n".join(lines) and its like
RECURSIVE Join(_, _)
Join(lines, sep) ==
  IF Len(lines) = 0 THEN ""
  ELSE IF Len(lines) = 1 THEN lines[1]
  ELSE lines[1] \o sep \o Join(Tail(lines), sep)

Pad2(n) == IF n < 10 THEN "0" \o ToString(n) ELSE ToString(n)

MonthText(day) == IF MonthOf(day) = 4 THEN "April" ELSE "May"

\* strftime('%B %d, %Y') of a day
DateText(day) ==
  MonthText(day) \o " " \o Pad2(IF day < MonthDays THEN day + 1 ELSE day - MonthDays + 1)
                 \o ", 2025"

\* strftime('%Y-%m-%d') of a day
IsoDate(day) ==
  "2025-" \o Pad2(MonthOf(day)) \o "-"
          \o Pad2(IF day < MonthDays THEN day + 1 ELSE day - MonthDays + 1)

\* strftime('%I:%M %p %Z') of a time
TimeText(t) ==
  LET h == t % 24
      h12 == IF h % 12 = 0 THEN 12 ELSE h % 12
  IN Pad2(h12) \o ":00 " \o (IF h < 12 THEN "AM" ELSE "PM") \o " UTC"

\* The hour filter of a shift type on the start hour of an entry
InHourBucket(t, shift_type) ==
  LET h == t % 24
  IN CASE shift_type = "Morning" -> h >= 5 /\ h < 12
       [] shift_type = "Afternoon" -> h >= 12 /\ h < 16
       [] shift_type = "Evening" -> h >= 16 /\ h < 21
       [] shift_type = "Night" -> h >= 21
       [] OTHER -> TRUE

\* The entries get_shifts_for_context selects for a day and a shift type
relevant_shifts(S, target_date, target_shift_type) ==
  { s \in S : /\ s.start_time >= At(target_date, 0)
              /\ s.start_time < At(target_date + 1, 0)
              /\ InHourBucket(s.start_time, target_shift_type) }

ShiftLine(s) ==
  "- " \o EmployeeName(s.employee_id) \o " scheduled from " \o TimeText(s.start_time)
       \o " to " \o TimeText(s.end_time) \o "."

\* get_shifts_for_context; db_err is a store error raised by its query.  The
\* employees of the directory have no scheduling preference set.
get_shifts_for_context(S, target_date, target_shift_type, db_err) ==
  IF target_date = NoDate THEN "No specific date identified in the query."
  ELSE IF db_err THEN "Error retrieving schedule data from the database."
  ELSE LET rel == OrderByStart(relevant_shifts(S, target_date, target_shift_type))
       IN IF Len(rel) = 0
          THEN "No shifts found for " \o DateText(target_date)
                 \o (IF target_shift_type # None
                     THEN " matching type " \o target_shift_type ELSE "") \o "."
          ELSE Join(<< "Context: Schedule Information for " \o DateText(target_date)
                         \o (IF target_shift_type # None
                             THEN " (" \o target_shift_type \o " shifts)" ELSE "") \o ":" >>
                    \o [ i \in 1..Len(rel) |-> ShiftLine(rel[i]) ], "\n")

\* The entries of a month (all days of the model before day MonthDays are April)
month_shifts(S, month) ==
  { s \in S : MonthOf(s.start_time \div 24) = month }

\* emp_summary: the names in order of first appearance
RECURSIVE NamesInOrder(_, _)
NamesInOrder(rel, seen) ==
  IF Len(rel) = 0 THEN << >>
  ELSE LET n == EmployeeName(rel[1].employee_id)
       IN IF n \in seen THEN NamesInOrder(Tail(rel), seen)
          ELSE << n >> \o NamesInOrder(Tail(rel), seen \cup {n})

ShiftCount(S, name) == Cardinality({ s \in S : EmployeeName(s.employee_id) = name })

\* emp_summary[name]["dates"]: the date of each entry of the employee, in the
\* order of the entries
DatesOf(rel, name) ==
  LET mine == SelectSeq(rel, LAMBDA s : EmployeeName(s.employee_id) = name)
  IN [ i \in 1..Len(mine) |-> DateText(mine[i].start_time \div 24) ]

\* sorted(set(dates)): the date texts of one year sort like their days
RECURSIVE SortedDays(_)
SortedDays(D) ==
  IF D = {} THEN << >>
  ELSE LET m == CHOOSE d \in D : \A e \in D : d <= e
       IN << DateText(m) >> \o SortedDays(D \ {m})

SortedDates(S, name) ==
  SortedDays({ s.start_time \div 24 : s \in { x \in S : EmployeeName(x.employee_id) = name } })

\* max_count and top_emps of get_shifts_for_month
max_count(S) ==
  LET names == { EmployeeName(s.employee_id) : s \in S }
  IN CHOOSE c \in { ShiftCount(S, n) : n \in names } :
        \A n \in names : ShiftCount(S, n) <= c

top_emps(S) ==
  SelectSeq(NamesInOrder(OrderByStart(S), {}), LAMBDA n : ShiftCount(S, n) = max_count(S))

\* get_shifts_for_month, lines 191-237: the text made of the matched entries
month_context(rel, month, target_shift_type) ==
       LET names == NamesInOrder(OrderByStart(rel), {})
           tops == top_emps(rel)
           typ == IF target_shift_type # None THEN Lower(target_shift_type) ELSE ""
       IN IF rel = {}
          THEN "No shifts found for " \o (IF month = 4 THEN "April" ELSE "May") \o " 2025"
                 \o (IF target_shift_type # None
                     THEN " matching type " \o target_shift_type ELSE "") \o "."
          ELSE Join(<< "Context: Schedule Information for "
                         \o (IF month = 4 THEN "April" ELSE "May") \o " 2025"
                         \o (IF target_shift_type # None
                             THEN " (" \o target_shift_type \o " shifts)" ELSE "") \o ":" >>
                    \o [ i \in 1..Len(names) |->
                           "- " \o names[i] \o ": " \o ToString(ShiftCount(rel, names[i]))
                                \o " shifts on " \o Join(SortedDates(rel, names[i]), ", ") ]
                    \o << IF Len(tops) = 1
                          THEN "\nEmployee with the most " \o typ \o " shifts: " \o tops[1]
                                 \o " (" \o ToString(max_count(rel)) \o " shifts)"
                          ELSE "\nEmployees with the most " \o typ \o " shifts: "
                                 \o Join(tops, ", ")
                                 \o " (" \o ToString(max_count(rel)) \o " shifts each)" >>,
                    "\n")
               \o "\n\n=== Shift Data (JSON) ===\n["
               \o Join([ i \in 1..Len(names) |->
                           "{employee: " \o names[i] \o ", count: "
                              \o ToString(ShiftCount(rel, names[i])) \o ", dates: ["
                              \o Join(DatesOf(OrderByStart(rel), names[i]), ", ")
                              \o "]}" ], ", ")
               \o "]\n"

\* get_shifts_for_month: with a shift type the filter reads Shift.start_time.hour,
\* an attribute the column does not have, and the AttributeError is reported in
\* the returned text like a store error
get_shifts_for_month(S, year, month, target_shift_type, db_err) ==
  IF db_err \/ target_shift_type \in ShiftTypes
  THEN "Error retrieving monthly schedule data: error"
  ELSE month_context(month_shifts(S, month), month, target_shift_type)

\* The calendar context query_ollama computes for a query (lines 106-184):
\* raised is an exception that leaves the handler, text the context
schedule_context_of(query, S, db_err) ==
  LET extracted_names == extract_employee_names(query)
      extracted_dates == extract_dates(query)
      extracted_shift_type == extract_shift_type(query)
      extracted_intent == extract_intent(query)
      target_date == parse_date_from_query(query)
      target_shift_type == parse_shift_type_from_query(query)
      ym == parse_month_year_from_query(query)
      start_date == extracted_dates.start
      end_date == extracted_dates.end
      fallback == IF ym.year # 0 /\ ym.month # 0
                  THEN get_shifts_for_month(S, ym.year, ym.month, target_shift_type, db_err)
                  ELSE get_shifts_for_context(S, target_date, target_shift_type, db_err)
  IN IF extracted_intent = "query"
     THEN IF start_date # NoDate /\ end_date # NoDate /\ extracted_shift_type # None
          THEN IF MonthOf(start_date) = MonthOf(end_date) /\ end_date - start_date > 0
               THEN [raised |-> FALSE,
                     text |-> Join([ n \in 1..(end_date - start_date + 1) |->
                                       get_shifts_for_context(S, start_date + n - 1,
                                                              extracted_shift_type, db_err) ],
                                   "\n")]
               ELSE IF MonthOf(start_date) = MonthOf(end_date) /\ start_date = end_date
               THEN [raised |-> FALSE,
                     text |-> get_shifts_for_context(S, start_date, extracted_shift_type, db_err)]
               ELSE [raised |-> FALSE,
                     text |-> get_shifts_for_month(S, 2025, MonthOf(start_date),
                                                   extracted_shift_type, db_err)]
          ELSE IF extracted_shift_type # None /\ ym.year # 0 /\ ym.month # 0
          THEN [raised |-> FALSE,
                text |-> get_shifts_for_month(S, ym.year, ym.month, extracted_shift_type, db_err)]
          ELSE IF extracted_shift_type # None /\ target_date # NoDate
          THEN [raised |-> FALSE,
                text |-> get_shifts_for_context(S, target_date, extracted_shift_type, db_err)]
          ELSE [raised |-> FALSE, text |-> fallback]
     ELSE IF extracted_intent = "replace"
     THEN LET calloff_name == IF extracted_names # {}
                              THEN CHOOSE n \in extracted_names : TRUE ELSE None
              calloff_date == start_date
              calloff_shift_type == IF extracted_shift_type # None
                                    THEN extracted_shift_type ELSE target_shift_type
          IN IF calloff_name # None /\ calloff_date # NoDate /\ calloff_shift_type # None
             THEN \* Shift.start_time.hour raises AttributeError, or the store fails
                  [raised |-> TRUE, text |-> ""]
             ELSE [raised |-> FALSE,
                   text |-> "Call-off detected: " \o calloff_name \o " is unavailable for "
                            \o (IF calloff_shift_type # None
                                THEN calloff_shift_type ELSE "the shift")
                            \o " on "
                            \o (IF calloff_date # NoDate
                                THEN IsoDate(calloff_date) ELSE "unknown date")
                            \o ".\nAvailable replacements: None found.\n"
                            \o "Suggest the best available replacement and ask the supervisor for approval before making any schedule changes."]
     ELSE [raised |-> FALSE, text |-> fallback]

\* ------------------------------------------------------------------------
\* Policy context (utils/llamaindex_faiss.py, routes/policy.py)
\* ------------------------------------------------------------------------
\* A vector is one integer coordinate; the embedding service maps a chunk text
\* to a non-zero vector
EmbedChunk(text) ==
  CASE text = "Officers must have 8 hours between shifts." -> 3
    [] text = "No overtime beyond 12 hours per day." -> 7
    [] OTHER -> 5

\* The embedding of a query text
EmbedQuery(query) == Len(query) + 1

\* [0.0] * _embedding_dim, what _embed_text_ollama returns on any failure
ZeroVector == 0

\* _embed_text_ollama: the embedding, or the zero vector when the call fails
embed_text_ollama(query, embed_ok) ==
  IF embed_ok THEN EmbedQuery(query) ELSE ZeroVector

\* top_k of the policy search query_ollama sends
TopK == 5

L2(a, b) == (a - b) * (a - b)

\* _faiss_index.search(arr, top_k): the positions of the top_k nearest vectors
RECURSIVE Nearest(_, _, _, _)
Nearest(index, v, k, taken) ==
  LET rest == (1..Len(index)) \ taken
  IN IF k = 0 \/ rest = {} THEN << >>
     ELSE LET m == CHOOSE i \in rest :
                     \A j \in rest : L2(index[i], v) < L2(index[j], v)
                                     \/ (L2(index[i], v) = L2(index[j], v) /\ i <= j)
          IN << m >> \o Nearest(index, v, k - 1, taken \cup {m})

\* search_policy_chunks: the metadata of the nearest chunks
search_policy_chunks(query, top_k, index, metadata, embed_ok) ==
  IF Len(index) = 0 THEN << >>
  ELSE LET query_emb == embed_text_ollama(query, embed_ok)
           I == Nearest(index, query_emb, top_k, {})
       IN SelectSeq([ n \in 1..Len(I) |-> IF I[n] <= Len(metadata)
                                           THEN metadata[I[n]]
                                           ELSE [document_id |-> 0, text |-> ""] ],
                    LAMBDA r : r.document_id # 0)

\* The policy context query_ollama builds from a policy-search reply; outcome
\* is "ok", "raise" (the call raises) or "status" (an error status)
policy_context_of(query, index, metadata, outcome, embed_ok) ==
  IF outcome # "ok" THEN ""
  ELSE LET policy_results == search_policy_chunks(query, TopK, index, metadata, embed_ok)
       IN Join([ i \in 1..Len(policy_results) |-> policy_results[i].text ], "\n")

\* The index snapshots the process can load at start-up: none, or the chunks of
\* one ingested document
IndexSnapshots ==
  { << >>,
    << [document_id |-> 1, text |-> "Officers must have 8 hours between shifts.", embedding |-> 3],
       [document_id |-> 1, text |-> "No overtime beyond 12 hours per day.", embedding |-> 7] >> }

\* ------------------------------------------------------------------------
\* Generated text and the Response Interpreter
\* ------------------------------------------------------------------------
\* A generated text is a sequence of pieces: prose, "[", "]", and the object
\* and number literals it contains (q is the quote character of an object)
Prose == [t |-> "text"]
LBracket == [t |-> "["]
RBracket == [t |-> "]"]
Number == [t |-> "num"]
Obj(q, employee, date, shift_type) ==
  [t |-> "obj", q |-> q, employee |-> employee, date |-> date, shift_type |-> shift_type]

\* The objects the generated change-lists are made of
Items(q) ==
  { Obj(q, "Paul Rocco", "2025-04-01", "Afternoon"),
    Obj(q, "Dana Lee", "2025-04-01", "Night"),
    Obj(q, "Ghost Writer", "2025-04-01", "Afternoon") }

RECURSIVE SeqsUpTo(_, _)
SeqsUpTo(S, n) ==
  IF n = 0 THEN { << >> }
  ELSE LET shorter == SeqsUpTo(S, n - 1)
       IN shorter \cup { Append(b, x) : b \in { c \in shorter : Len(c) = n - 1 }, x \in S }

\* The texts the generation service returns: no completion, prose, one
\* bracket without the other, brackets in the wrong order or around prose,
\* every change-list of up to MaxBatch
\* objects, and change-lists with a malformed date, an unknown shift type, a
\* missing field, a number and single quotes
AiTexts ==
  { << >>, << Prose >>, << RBracket, Prose, LBracket >>, << LBracket, Prose, RBracket >>,
    << Prose, LBracket, Obj("dq", "Paul Rocco", "2025-04-01", "Afternoon") >>,
    << Obj("dq", "Paul Rocco", "2025-04-01", "Afternoon"), RBracket, Prose >> }
  \cup { << Prose, LBracket >> \o b \o << RBracket >> : b \in SeqsUpTo(Items("dq"), MaxBatch) }
  \cup { << Prose, LBracket, x, Obj("dq", "Paul Rocco", "2025-04-01", "Afternoon"), RBracket >> :
           x \in { Obj("dq", "Paul Rocco", "April 1st", "Morning"),
                   Obj("dq", None, "2025-04-01", "Morning"),
                   Number } }
  \cup { << Prose, LBracket, Obj("dq", "Dana Lee", "2025-04-02", "Swing"), RBracket >>,
         << Prose, LBracket, Obj("sq", "Paul Rocco", "2025-04-01", "Afternoon"), RBracket >> }

\* str.find and str.rfind of a piece; 0 is the -1 of Python
Find(text, t) ==
  IF \E i \in 1..Len(text) : text[i].t = t
  THEN CHOOSE i \in 1..Len(text) : text[i].t = t /\ \A j \in 1..(i - 1) : text[j].t # t
  ELSE 0

RFind(text, t) ==
  IF \E i \in 1..Len(text) : text[i].t = t
  THEN CHOOSE i \in 1..Len(text) : text[i].t = t /\ \A j \in (i + 1)..Len(text) : text[j].t # t
  ELSE 0

\* json.loads of text[json_start..json_end]: ok when the inside of the brackets
\* is a list of numbers and of objects in double quotes
JsonLoads(json_str) ==
  LET inner == SubSeq(json_str, 2, Len(json_str) - 1)
      ok == \A i \in 1..Len(inner) :
               inner[i].t = "num" \/ (inner[i].t = "obj" /\ inner[i].q = "dq")
  IN [raised |-> ~ok, value |-> IF ok THEN inner ELSE << >>]

\* The schedule_updates query_ollama extracts from the generated text
extract_schedule_updates(ai_response_text) ==
  LET json_start == Find(ai_response_text, "[")
      json_end == RFind(ai_response_text, "]")
  IN IF json_start # 0 /\ json_end # 0 /\ json_end > json_start
     THEN JsonLoads(SubSeq(ai_response_text, json_start, json_end)).value
     ELSE << >>

\* Whether that json.loads call raised (the except of line 268)
parse_raised(ai_response_text) ==
  LET json_start == Find(ai_response_text, "[")
      json_end == RFind(ai_response_text, "]")
  IN /\ json_start # 0 /\ json_end # 0 /\ json_end > json_start
     /\ JsonLoads(SubSeq(ai_response_text, json_start, json_end)).raised

\* ------------------------------------------------------------------------
\* State
\* ------------------------------------------------------------------------
VARIABLES
  shifts,            \* the calendar store: the committed Shift rows
  ollama_queries,    \* the interaction log: the committed OllamaQuery rows
  schedule_snapshots, \* the saved calendars: the committed ScheduleSnapshot rows
  faiss_index,       \* _faiss_index: the indexed vectors
  chunk_metadata,    \* _chunk_metadata
  index_files,       \* faiss_index.bin and faiss_metadata.json on disk
  policy_documents,  \* the ids of the committed PolicyDocument rows
  reindex,           \* position of the request reindex_policies is serving
  appliers,          \* apply_schedule_updates of the requests running side by side
  pc,                \* position of the request being served
  route,             \* the handler serving it
  user_query,
  model_to_use,
  schedule_context,
  policy_context,
  gen_calls,         \* calls of the generation endpoint made by this request
  gen_result,        \* what the generation service does with the pending call
  ai_response_text,
  schedule_updates,
  item_idx,          \* position of apply_schedule_updates in its loop
  session,           \* db.session: the uncommitted view of the calendar rows
  reply,
  served,            \* requests answered so far
  hist               \* what happened to the request being served

vars == << shifts, ollama_queries, schedule_snapshots, faiss_index, chunk_metadata,
           index_files, policy_documents, reindex, appliers, pc, route, user_query,
           model_to_use, schedule_context, policy_context, gen_calls, gen_result,
           ai_response_text, schedule_updates, item_idx, session, reply, served, hist >>

policy_vars == << index_files, policy_documents, reindex >>

store_vars == << shifts, ollama_queries, faiss_index, chunk_metadata, schedule_snapshots,
                policy_vars, appliers >>

OLLAMA_DEFAULT_MODEL == "llama3:8b"

\* The requests of the model: a query text and the model it asks for
RequestInputs ==
  { << Q_MOST, OLLAMA_DEFAULT_MODEL >>, << Q_HELLO, OLLAMA_DEFAULT_MODEL >>,
    << Q_CALLOFF, OLLAMA_DEFAULT_MODEL >>, << Q_LIST, OLLAMA_DEFAULT_MODEL >>,
    << Q_APPROVE, "mistral" >>, << Q_EMPTY, OLLAMA_DEFAULT_MODEL >> }

\* The requests whose appliers run side by side, and an applier not yet begun
ConcurrentRequests == 1..MaxConcurrent
NoApplier == [pc |-> "idle", item |-> None, window0 |-> {}, existing |-> {}]

\* No index files on disk; no reindex request in progress
NoFiles == [exists |-> FALSE, index |-> << >>, meta |-> << >>]
NoReindex == [pc |-> "idle", docs |-> << >>, new_metadata |-> << >>, done |-> << >>]

\* The policy documents of the store, and the paragraphs of their content
PolicyDocuments == { 1 }
DocChunks(document_id) ==
  << "Officers must have 8 hours between shifts.", "No overtime beyond 12 hours per day." >>

NoReply == [status |-> 0, response |-> << >>, schedule_updates |-> << >>, error |-> ""]
NoGen == [kind |-> "none", text |-> << >>, body |-> "none"]
NoSession == [shifts |-> {}, failed |-> FALSE]

NoHist ==
  [ shifts0 |-> {},            \* the calendar store when the request came in
    log0 |-> << >>,            \* the interaction log when the request came in
    nlu_failed |-> FALSE,      \* a Normalizer call raised
    context_failed |-> FALSE,  \* the calendar context raised or hit a store error
    policy_failed |-> FALSE,   \* the policy-search call raised or returned an error
    embed_failed |-> FALSE,    \* the embedding service failed during the search
    gen_ok |-> FALSE,          \* the generation call returned a completion
    log_failed |-> FALSE,      \* the interaction record could not be written
    parse_failed |-> FALSE,    \* json.loads raised
    store_errors |-> {},       \* the loop positions at which the store raised
    commit_tried |-> FALSE,
    commit_failed |-> FALSE ]

ErrorReply(status, error) ==
  [status |-> status, response |-> << >>, schedule_updates |-> << >>, error |-> error]

Init ==
  /\ shifts = {}
  /\ ollama_queries = << >>
  /\ schedule_snapshots = << >>
  /\ chunk_metadata \in IndexSnapshots
  /\ faiss_index = [ i \in 1..Len(chunk_metadata) |-> chunk_metadata[i].embedding ]
  /\ index_files = IF chunk_metadata = << >> THEN NoFiles
                   ELSE [exists |-> TRUE, index |-> faiss_index, meta |-> chunk_metadata]
  /\ policy_documents = PolicyDocuments
  /\ reindex = NoReindex
  /\ appliers = [ r \in ConcurrentRequests |-> NoApplier ]
  /\ pc = "idle"
  /\ route = "none"
  /\ user_query = << >>
  /\ model_to_use = OLLAMA_DEFAULT_MODEL
  /\ schedule_context = ""
  /\ policy_context = ""
  /\ gen_calls = 0
  /\ gen_result = NoGen
  /\ ai_response_text = << >>
  /\ schedule_updates = << >>
  /\ item_idx = 0
  /\ session = NoSession
  /\ reply = NoReply
  /\ served = 0
  /\ hist = NoHist

\* ------------------------------------------------------------------------
\* Shift CRUD (routes/shift.py), the collaborator that also writes the store
\* ------------------------------------------------------------------------
NewShiftId(S) == IF S = {} THEN 1 ELSE (CHOOSE i \in { s.id : s \in S } : \A s \in S : s.id <= i) + 1

\* Shift(employee_id=..., start_time=..., end_time=...): the validator rejects
\* end <= start with ValueError
NewShift(S, employee_id, start_time, end_time) ==
  [id |-> NewShiftId(S), employee_id |-> employee_id,
   start_time |-> start_time, end_time |-> end_time]

\* The start and end times a supervisor posts
CrudTimes == { << At(0, 13), At(0, 15) >>, << At(0, 14), At(0, 22) >>, << At(0, 15), At(0, 13) >> }

\* handle_shifts, POST: create one entry
CreateShift(employee_id, start_time, end_time) ==
  /\ pc = "idle"
  /\ Cardinality(shifts) < MaxShifts
  /\ IF ValidTimes(start_time, end_time)
     THEN shifts' = shifts \cup { NewShift(shifts, employee_id, start_time, end_time) }
     ELSE shifts' = shifts
  /\ UNCHANGED << ollama_queries, schedule_snapshots, faiss_index, chunk_metadata, policy_vars, appliers, pc, route, user_query,
                  model_to_use, schedule_context, policy_context, gen_calls, gen_result,
                  ai_response_text, schedule_updates, item_idx, session, reply, served, hist >>

\* ------------------------------------------------------------------------
\* query_ollama (routes/ollama.py), one action per stage of the handler
\* ------------------------------------------------------------------------
request_vars == << route, user_query, model_to_use >>
context_vars == << schedule_context, policy_context >>
gen_vars == << gen_calls, gen_result, ai_response_text >>
apply_vars == << schedule_updates, item_idx, session >>

\* lines 78-84: the request comes in; an empty query is answered with 400
SubmitQuery(query, model) ==
  /\ pc = "idle"
  /\ served < MaxRequests
  /\ route' = "query_ollama"
  /\ user_query' = query
  /\ model_to_use' = model
  /\ hist' = [NoHist EXCEPT !.shifts0 = shifts, !.log0 = ollama_queries]
  /\ IF query = << >>
     THEN pc' = "responded" /\ reply' = ErrorReply(400, "Missing query in request")
     ELSE pc' = "normalizing" /\ reply' = NoReply
  /\ UNCHANGED << store_vars, context_vars, gen_vars, apply_vars, served >>

\* lines 86-94: the four NLU calls, outside any try; extract_employee_names
\* reads the directory from the store (store_err), extract_dates may raise
Normalize(store_err) ==
  /\ pc = "normalizing"
  /\ IF store_err \/ extract_dates(user_query).raised
     THEN /\ pc' = "responded"
          /\ reply' = ErrorReply(500, "Internal Server Error")
          /\ hist' = [hist EXCEPT !.nlu_failed = TRUE]
     ELSE /\ pc' = "context"
          /\ UNCHANGED << reply, hist >>
  /\ UNCHANGED << store_vars, request_vars, context_vars, gen_vars, apply_vars, served >>

\* lines 98-184: the calendar context
AssembleContext(db_err) ==
  /\ pc = "context"
  /\ LET c == schedule_context_of(user_query, shifts, db_err)
     IN IF c.raised
        THEN /\ pc' = "responded"
             /\ reply' = ErrorReply(500, "Internal Server Error")
             /\ hist' = [hist EXCEPT !.context_failed = TRUE]
             /\ UNCHANGED schedule_context
        ELSE /\ pc' = "policy"
             /\ schedule_context' = c.text
             /\ hist' = [hist EXCEPT !.context_failed = db_err]
             /\ UNCHANGED reply
  /\ UNCHANGED << store_vars, request_vars, policy_context, gen_vars, apply_vars, served >>

\* A variant of PolicySearch that lets the exception of a failed policy search
\* leave the handler
PolicySearch_raises(outcome, embed_ok) ==
  /\ pc = "policy"
  /\ policy_context' = policy_context_of(user_query, faiss_index, chunk_metadata,
                                         outcome, embed_ok)
  /\ hist' = [hist EXCEPT !.policy_failed = (outcome # "ok"),
                          !.embed_failed = (outcome = "ok" /\ ~embed_ok
                                            /\ Len(faiss_index) > 0)]
  /\ IF outcome # "ok"
     THEN pc' = "responded" /\ reply' = ErrorReply(500, "Internal Server Error")
     ELSE pc' = "generating" /\ UNCHANGED reply
  /\ UNCHANGED << store_vars, request_vars, schedule_context, gen_vars, apply_vars,
                  served >>

\* lines 186-205: the policy-search call and the prompt
PolicySearch(outcome, embed_ok) ==
  /\ pc = "policy"
  /\ policy_context' = policy_context_of(user_query, faiss_index, chunk_metadata,
                                         outcome, embed_ok)
  /\ hist' = [hist EXCEPT !.policy_failed = (outcome # "ok"),
                          !.embed_failed = (outcome = "ok" /\ ~embed_ok
                                            /\ Len(faiss_index) > 0)]
  /\ pc' = "generating"
  /\ UNCHANGED << store_vars, request_vars, schedule_context, gen_vars, apply_vars,
                  reply, served >>

\* What the generation service can do with one call: return a completion,
\* never answer, refuse the connection, answer with an error status and some
\* body, or return something that is not the expected JSON object
BodyKinds == { "json_error", "json_no_error", "json_not_object", "text", "empty" }

GenResults ==
  { [kind |-> "ok", text |-> t, body |-> "none"] : t \in AiTexts }
  \cup { [kind |-> k, text |-> << >>, body |-> "none"] : k \in { "hang", "conn", "other" } }
  \cup { [kind |-> "http", text |-> << >>, body |-> b] : b \in BodyKinds }

\* lines 207-217: requests.post(api_endpoint, json=ollama_payload, timeout=90)
SendGenerate(result) ==
  /\ pc = "generating"
  /\ route = "query_ollama"
  /\ gen_calls' = gen_calls + 1
  /\ gen_result' = result
  /\ pc' = "awaiting"
  /\ UNCHANGED << store_vars, request_vars, context_vars, ai_response_text, apply_vars,
                  reply, served, hist >>

FallbackText == << [t |-> "text"], [t |-> "text"] >>

\* lines 234-238: error_detail of a failed generation call
error_detail(result) ==
  CASE result.kind = "conn" -> "str(e)"
    [] result.body = "json_error" -> "error of the response body"
    [] result.body = "json_no_error" -> "str(e)"
    [] result.body = "text" -> "text of the response body"
    [] OTHER -> ""

\* A variant of ReceiveGenerate that carries on after a failed call with the
\* text received so far instead of returning the error reply
PartialText ==
  << [t |-> "text"], [t |-> "["],
     [t |-> "obj", q |-> "dq", employee |-> "Paul Rocco", date |-> "2025-04-02",
      shift_type |-> "Evening"],
     [t |-> "]"] >>

ReceiveGenerate_keeps_partial ==
  /\ pc = "awaiting"
  /\ route = "query_ollama"
  /\ IF gen_result.kind = "ok"
     THEN /\ ai_response_text' = IF gen_result.text = << >>
                                 THEN FallbackText ELSE gen_result.text
          /\ hist' = [hist EXCEPT !.gen_ok = TRUE]
     ELSE /\ ai_response_text' = PartialText
          /\ UNCHANGED hist
  /\ pc' = "logging"
  /\ UNCHANGED << store_vars, request_vars, context_vars, gen_calls, gen_result,
                  apply_vars, reply, served >>

\* lines 217-241: the call returns, times out or fails
ReceiveGenerate ==
  /\ pc = "awaiting"
  /\ route = "query_ollama"
  /\ CASE gen_result.kind = "ok" ->
            /\ ai_response_text' = IF gen_result.text = << >>
                                   THEN FallbackText ELSE gen_result.text
            /\ pc' = "logging"
            /\ hist' = [hist EXCEPT !.gen_ok = TRUE]
            /\ UNCHANGED reply
       [] gen_result.kind = "hang" ->
            /\ reply' = ErrorReply(504, "The request to the AI assistant timed out.")
            /\ pc' = "responded"
            /\ UNCHANGED << ai_response_text, hist >>
       [] gen_result.kind = "conn" ->
            /\ reply' = ErrorReply(502, "Ollama API error: " \o error_detail(gen_result))
            /\ pc' = "responded"
            /\ UNCHANGED << ai_response_text, hist >>
       [] gen_result.kind = "http" ->
            /\ reply' = IF gen_result.body = "json_not_object"
                        THEN ErrorReply(500, "Internal Server Error")
                        ELSE ErrorReply(502, "Ollama API error: " \o error_detail(gen_result))
            /\ pc' = "responded"
            /\ UNCHANGED << ai_response_text, hist >>
       [] OTHER ->
            /\ reply' = ErrorReply(500, "An unexpected error occurred while contacting the AI assistant.")
            /\ pc' = "responded"
            /\ UNCHANGED << ai_response_text, hist >>
  /\ UNCHANGED << store_vars, request_vars, context_vars, gen_calls, gen_result,
                  apply_vars, served >>

\* A variant of LogInteraction in which a failed write of the record ends the
\* request with an error reply
LogInteraction_fatal(ok) ==
  /\ pc = "logging"
  /\ IF ok
     THEN /\ ollama_queries' = Append(ollama_queries,
                                      [employee_id |-> 1, query |-> user_query,
                                       response |-> ai_response_text,
                                       model_used |-> model_to_use])
          /\ pc' = "interpreting"
          /\ UNCHANGED << hist, reply >>
     ELSE /\ hist' = [hist EXCEPT !.log_failed = TRUE]
          /\ pc' = "responded"
          /\ reply' = ErrorReply(500, "Internal Server Error")
          /\ UNCHANGED ollama_queries
  /\ UNCHANGED << shifts, schedule_snapshots, faiss_index, chunk_metadata, policy_vars, appliers, request_vars, context_vars,
                  gen_vars, apply_vars, served >>

\* A variant of LogInteraction that records the completion as the service
\* returned it, without the fallback text of an empty completion
LogInteraction_raw(ok) ==
  /\ pc = "logging"
  /\ IF ok
     THEN /\ ollama_queries' = Append(ollama_queries,
                                      [employee_id |-> 1, query |-> user_query,
                                       response |-> gen_result.text,
                                       model_used |-> model_to_use])
          /\ UNCHANGED hist
     ELSE /\ hist' = [hist EXCEPT !.log_failed = TRUE]
          /\ UNCHANGED ollama_queries
  /\ pc' = "interpreting"
  /\ UNCHANGED << shifts, schedule_snapshots, faiss_index, chunk_metadata, policy_vars, appliers, request_vars, context_vars,
                  gen_vars, apply_vars, reply, served >>

\* lines 243-257: the interaction record; a failed write is rolled back
LogInteraction(ok) ==
  /\ pc = "logging"
  /\ IF ok
     THEN /\ ollama_queries' = Append(ollama_queries,
                                      [employee_id |-> 1, query |-> user_query,
                                       response |-> ai_response_text,
                                       model_used |-> model_to_use])
          /\ UNCHANGED hist
     ELSE /\ hist' = [hist EXCEPT !.log_failed = TRUE]
          /\ UNCHANGED ollama_queries
  /\ pc' = "interpreting"
  /\ UNCHANGED << shifts, schedule_snapshots, faiss_index, chunk_metadata, policy_vars, appliers, request_vars, context_vars,
                  gen_vars, apply_vars, reply, served >>

\* A variant of Interpret in which text without a parseable change-list ends
\* the request with an error reply
Interpret_raises ==
  /\ pc = "interpreting"
  /\ schedule_updates' = extract_schedule_updates(ai_response_text)
  /\ item_idx' = 1
  /\ session' = [shifts |-> shifts, failed |-> FALSE]
  /\ hist' = [hist EXCEPT !.parse_failed = parse_raised(ai_response_text)]
  /\ IF parse_raised(ai_response_text)
        \/ Find(ai_response_text, "[") = 0 \/ RFind(ai_response_text, "]") = 0
     THEN pc' = "responded" /\ reply' = ErrorReply(500, "Internal Server Error")
     ELSE /\ pc' = IF schedule_updates' # << >> THEN "applying" ELSE "replying"
          /\ UNCHANGED reply
  /\ UNCHANGED << store_vars, request_vars, context_vars, gen_vars, served >>

\* lines 259-269 and 334: the change-list, and whether the applier runs
Interpret ==
  /\ pc = "interpreting"
  /\ schedule_updates' = extract_schedule_updates(ai_response_text)
  /\ item_idx' = 1
  /\ session' = [shifts |-> shifts, failed |-> FALSE]
  /\ hist' = [hist EXCEPT !.parse_failed = parse_raised(ai_response_text)]
  /\ pc' = IF schedule_updates' # << >> THEN "applying" ELSE "replying"
  /\ UNCHANGED << store_vars, request_vars, context_vars, gen_vars, reply, served >>

\* Whether the loop body gets as far as its first store query for the item
ReachesStore(sess, item) ==
  /\ item.t = "obj"
  /\ item.employee # None /\ item.date # None /\ item.shift_type # None

\* One pass of the loop of apply_schedule_updates (lines 276-326): the possible
\* sessions after the item.  store_err is a store error raised by one of its
\* queries, survives whether the transaction is still usable afterwards.
apply_item(sess, item, store_err, survives) ==
  IF ~ReachesStore(sess, item) THEN { sess }
  ELSE IF sess.failed THEN { sess }
  ELSE IF store_err THEN { [sess EXCEPT !.failed = ~survives] }
  ELSE LET emp == EmployeeByName(item.employee)
           day == StrpTime(item.date)
           start_time == StartTime(day, item.shift_type)
           end_time == EndTime(day, item.shift_type)
           existing == ExistingShifts(sess.shifts, emp, start_time, end_time)
       IN IF emp = NoEmployee \/ day < 0 THEN { sess }
          ELSE IF existing # {}
          THEN { IF ValidTimes(start_time, existing_shift.end_time)
                 THEN [sess EXCEPT !.shifts =
                         (sess.shifts \ { existing_shift })
                         \cup { [existing_shift EXCEPT !.start_time = start_time,
                                                       !.end_time = end_time] }]
                 ELSE sess
                 : existing_shift \in existing }
          ELSE { [sess EXCEPT !.shifts =
                    sess.shifts \cup { NewShift(sess.shifts, emp, start_time, end_time) }] }

ApplyItem(store_err, survives) ==
  /\ pc = "applying"
  /\ item_idx <= Len(schedule_updates)
  /\ session' \in apply_item(session, schedule_updates[item_idx], store_err, survives)
  /\ item_idx' = item_idx + 1
  /\ hist' = IF store_err /\ ReachesStore(session, schedule_updates[item_idx])
                /\ ~session.failed
             THEN [hist EXCEPT !.store_errors = @ \cup { item_idx }]
             ELSE hist
  /\ UNCHANGED << store_vars, request_vars, context_vars, gen_vars, schedule_updates,
                  pc, reply, served >>

\* lines 328-332: the one commit of the batch; a failed commit is rolled back
CommitUpdates(ok) ==
  /\ pc = "applying"
  /\ item_idx > Len(schedule_updates)
  /\ IF ok /\ ~session.failed
     THEN /\ shifts' = session.shifts
          /\ hist' = [hist EXCEPT !.commit_tried = TRUE]
     ELSE /\ shifts' = shifts
          /\ hist' = [hist EXCEPT !.commit_tried = TRUE, !.commit_failed = TRUE]
  /\ session' = NoSession
  /\ pc' = "replying"
  /\ UNCHANGED << ollama_queries, schedule_snapshots, faiss_index, chunk_metadata, policy_vars, appliers, request_vars, context_vars,
                  gen_vars, schedule_updates, item_idx, reply, served >>

\* lines 337-341: the success reply
Reply ==
  /\ pc = "replying"
  /\ reply' = [status |-> 200, response |-> ai_response_text,
               schedule_updates |-> schedule_updates, error |-> ""]
  /\ pc' = "responded"
  /\ UNCHANGED << store_vars, request_vars, context_vars, gen_vars, apply_vars, served, hist >>

\* The reply is sent and the worker is free again
Finish ==
  /\ pc = "responded"
  /\ pc' = "idle"
  /\ served' = served + 1
  /\ route' = "none"
  /\ user_query' = << >>
  /\ model_to_use' = OLLAMA_DEFAULT_MODEL
  /\ schedule_context' = ""
  /\ policy_context' = ""
  /\ gen_calls' = 0
  /\ gen_result' = NoGen
  /\ ai_response_text' = << >>
  /\ schedule_updates' = << >>
  /\ item_idx' = 0
  /\ session' = NoSession
  /\ reply' = NoReply
  /\ hist' = NoHist
  /\ UNCHANGED store_vars

\* ------------------------------------------------------------------------
\* query_schedule (routes/ollama_routes.py) and OllamaService
\* (services/ollama_service.py), the second client of the generation endpoint
\* ------------------------------------------------------------------------
\* query_schedule up to the call of OllamaService.generate: the schedule data
\* of the date range goes into the prompt
query_schedule(query) ==
  /\ pc = "idle"
  /\ served < MaxRequests
  /\ route' = "query_schedule"
  /\ user_query' = query
  /\ schedule_context' = "Here is the current schedule data"
  /\ hist' = [NoHist EXCEPT !.shifts0 = shifts, !.log0 = ollama_queries]
  /\ pc' = "generating"
  /\ UNCHANGED << store_vars, model_to_use, policy_context, gen_vars, apply_vars,
                  reply, served >>

\* OllamaService.generate, line 42: requests.post(url, json=payload), a call
\* without a timeout
OllamaService_generate(result) ==
  /\ pc = "generating"
  /\ route = "query_schedule"
  /\ gen_calls' = gen_calls + 1
  /\ gen_result' = result
  /\ pc' = "awaiting"
  /\ UNCHANGED << store_vars, request_vars, context_vars, ai_response_text, apply_vars,
                  reply, served, hist >>

\* OllamaService.generate, lines 43-47, and the rest of process_schedule_query
\* and query_schedule: the call returns only when the service answers or the
\* connection fails; a RequestException becomes the reply {"error": str(e)};
\* the record OllamaQuery(user_id=...) names no column of the table, so the
\* write raises and is rolled back
OllamaService_return ==
  /\ pc = "awaiting"
  /\ route = "query_schedule"
  /\ gen_result.kind # "hang"
  /\ CASE gen_result.kind = "ok" ->
            /\ ai_response_text' = gen_result.text
            /\ reply' = [status |-> 200, response |-> gen_result.text,
                         schedule_updates |-> << >>, error |-> ""]
            /\ hist' = [hist EXCEPT !.gen_ok = TRUE, !.log_failed = TRUE]
       [] gen_result.kind \in { "conn", "http" } ->
            /\ reply' = ErrorReply(200, "str(e)")
            /\ hist' = [hist EXCEPT !.log_failed = TRUE]
            /\ UNCHANGED ai_response_text
       [] OTHER ->
            /\ reply' = ErrorReply(500, "Internal Server Error")
            /\ UNCHANGED << ai_response_text, hist >>
  /\ pc' = "responded"
  /\ UNCHANGED << store_vars, request_vars, context_vars, gen_calls, gen_result,
                  apply_vars, served >>

\* ------------------------------------------------------------------------
\* The history endpoints of routes/ollama.py
\* ------------------------------------------------------------------------
\* The callers of the history endpoints: the supervisor who owns the records,
\* another supervisor and a plain member
CurrentUsers ==
  { [id |-> 1, supervisor |-> TRUE], [id |-> 2, supervisor |-> TRUE],
    [id |-> 2, supervisor |-> FALSE] }

\* The sequence without its element at position i
RemoveAt(seq, i) == [ j \in 1..(Len(seq) - 1) |-> IF j < i THEN seq[j] ELSE seq[j + 1] ]

\* delete_ollama_query, lines 357-375: the owner of a record or a supervisor
\* deletes it from the history; 404 for an unknown id, 403 for anybody else,
\* a failed delete is rolled back
delete_ollama_query(query_id, current_user, ok) ==
  /\ pc = "idle"
  /\ IF /\ query_id \in 1..Len(ollama_queries)
        /\ (ollama_queries[query_id].employee_id = current_user.id \/ current_user.supervisor)
        /\ ok
     THEN ollama_queries' = RemoveAt(ollama_queries, query_id)
     ELSE ollama_queries' = ollama_queries
  /\ UNCHANGED << shifts, schedule_snapshots, faiss_index, chunk_metadata, policy_vars, appliers, pc, route, user_query,
                  model_to_use, schedule_context, policy_context, gen_calls, gen_result,
                  ai_response_text, schedule_updates, item_idx, session, reply, served, hist >>

\* ------------------------------------------------------------------------
\* The other writers of the calendar store: routes/shift.py, routes/schedule.py
\* ------------------------------------------------------------------------
\* The bodies a supervisor puts: a new start alone, and a new start with a new
\* end; NoDate stands for a key that is not in the body
PutBodies ==
  { [start_time |-> At(0, 16), end_time |-> NoDate],
    [start_time |-> At(0, 15), end_time |-> At(0, 13)] }

\* handle_shift, PUT, lines 104-113: the new start is set and validated
\* against the end the row has, then the new end against the new start
put_shift(shift, data) ==
  LET set_start == data.start_time # NoDate /\ shift.start_time # data.start_time
      start_raised == set_start /\ ~ValidTimes(data.start_time, shift.end_time)
      with_start == IF set_start THEN [shift EXCEPT !.start_time = data.start_time]
                    ELSE shift
      set_end == data.end_time # NoDate /\ with_start.end_time # data.end_time
      end_raised == set_end /\ ~ValidTimes(with_start.start_time, data.end_time)
      with_end == IF set_end THEN [with_start EXCEPT !.end_time = data.end_time]
                  ELSE with_start
  IN [raised |-> start_raised \/ end_raised, shift |-> with_end]

\* handle_shift, PUT (lines 91-133): a ValueError of the validator, like a
\* failed commit, is rolled back
handle_shift(shift_id, data, ok) ==
  /\ pc = "idle"
  /\ \E shift \in shifts :
        /\ shift.id = shift_id
        /\ LET put == put_shift(shift, data)
           IN IF put.raised \/ ~ok
              THEN shifts' = shifts
              ELSE shifts' = (shifts \ { shift }) \cup { put.shift }
  /\ UNCHANGED << ollama_queries, schedule_snapshots, faiss_index, chunk_metadata, policy_vars, appliers, pc, route,
                  user_query, model_to_use, schedule_context, policy_context, gen_calls,
                  gen_result, ai_response_text, schedule_updates, item_idx, session, reply,
                  served, hist >>

\* save_snapshot (routes/schedule.py lines 8-33): the rows of the calendar are
\* stored as one snapshot
save_snapshot(ok) ==
  /\ pc = "idle"
  /\ Len(schedule_snapshots) < MaxSnapshots
  /\ schedule_snapshots' = IF ok THEN Append(schedule_snapshots, shifts)
                            ELSE schedule_snapshots
  /\ UNCHANGED << shifts, ollama_queries, faiss_index, chunk_metadata, policy_vars, appliers, pc, route,
                  user_query, model_to_use, schedule_context, policy_context, gen_calls,
                  gen_result, ai_response_text, schedule_updates, item_idx, session, reply,
                  served, hist >>

\* restore_snapshot (routes/schedule.py lines 35-61): every row is deleted and
\* the rows of the snapshot are built again with Shift(...); an exception, the
\* validator's included, rolls the whole restore back
restore_snapshot(snap_id, ok) ==
  /\ pc = "idle"
  /\ IF /\ snap_id \in 1..Len(schedule_snapshots)
        /\ ok
        /\ \A s \in schedule_snapshots[snap_id] : ValidTimes(s.start_time, s.end_time)
     THEN shifts' = schedule_snapshots[snap_id]
     ELSE shifts' = shifts
  /\ UNCHANGED << ollama_queries, schedule_snapshots, faiss_index, chunk_metadata, policy_vars, appliers, pc, route,
                  user_query, model_to_use, schedule_context, policy_context, gen_calls,
                  gen_result, ai_response_text, schedule_updates, item_idx, session, reply,
                  served, hist >>

RequestStep ==
  \/ \E result \in GenResults : OllamaService_generate(result)
  \/ OllamaService_return
  \/ \E store_err \in BOOLEAN : Normalize(store_err)
  \/ \E db_err \in BOOLEAN : AssembleContext(db_err)
  \/ \E outcome \in { "ok", "raise", "status" }, embed_ok \in BOOLEAN :
        PolicySearch(outcome, embed_ok)
  \/ \E result \in GenResults : SendGenerate(result)
  \/ ReceiveGenerate
  \/ \E ok \in BOOLEAN : LogInteraction(ok)
  \/ Interpret
  \/ \E store_err \in BOOLEAN, survives \in BOOLEAN : ApplyItem(store_err, survives)
  \/ \E ok \in BOOLEAN : CommitUpdates(ok)
  \/ Reply
  \/ Finish

Next ==
  \/ \E t \in CrudTimes : CreateShift(1, t[1], t[2])
  \/ \E input \in RequestInputs : SubmitQuery(input[1], input[2])
  \/ query_schedule(Q_LIST)
  \/ \E query_id \in 1..MaxRequests, current_user \in CurrentUsers, ok \in BOOLEAN :
        delete_ollama_query(query_id, current_user, ok)
  \/ RequestStep

Spec == Init /\ [][Next]_vars

\* ------------------------------------------------------------------------
\* The calendar store under all of its writers: the shift interface with
\* entries of both employees and entries without an employee, the snapshots,
\* and requests of query_ollama served without a failure before the applier
\* runs
\* ------------------------------------------------------------------------
CalendarInputs ==
  { << Q_MONTH, OLLAMA_DEFAULT_MODEL >>, << Q_MOST, OLLAMA_DEFAULT_MODEL >>,
    << Q_MONTH_MORNING, OLLAMA_DEFAULT_MODEL >>, << Q_HELLO, OLLAMA_DEFAULT_MODEL >>,
    << Q_APPROVE, OLLAMA_DEFAULT_MODEL >> }

\* The start and end times posted to the shift interface, a morning of the
\* second day and the small hours of the night before it among them
CalendarTimes == CrudTimes \cup { << At(1, 6), At(1, 12) >>, << At(1, 2), At(1, 5) >> }

CalendarTexts ==
  { << Prose >>,
    << Prose, LBracket, Obj("dq", "Paul Rocco", "2025-04-01", "Afternoon"), RBracket >>,
    << Prose, LBracket, Obj("dq", "Dana Lee", "2025-04-01", "Night"),
       Obj("dq", "Paul Rocco", "2025-04-01", "Evening"), RBracket >> }

CalendarRequestStep ==
  \/ Normalize(FALSE)
  \/ AssembleContext(FALSE)
  \/ PolicySearch("ok", TRUE)
  \/ \E t \in CalendarTexts : SendGenerate([kind |-> "ok", text |-> t, body |-> "none"])
  \/ ReceiveGenerate
  \/ LogInteraction(TRUE)
  \/ Interpret
  \/ \E store_err \in BOOLEAN : ApplyItem(store_err, TRUE)
  \/ \E ok \in BOOLEAN : CommitUpdates(ok)
  \/ Reply
  \/ Finish

CalendarNext ==
  \/ \E employee_id \in { NoEmployee, 1, 2 }, t \in CalendarTimes :
        CreateShift(employee_id, t[1], t[2])
  \/ \E shift_id \in 1..MaxShifts, data \in PutBodies, ok \in BOOLEAN :
        handle_shift(shift_id, data, ok)
  \/ \E ok \in BOOLEAN : save_snapshot(ok)
  \/ \E snap_id \in 1..MaxSnapshots, ok \in BOOLEAN : restore_snapshot(snap_id, ok)
  \/ \E input \in CalendarInputs : SubmitQuery(input[1], input[2])
  \/ CalendarRequestStep

CalendarInit == Init /\ chunk_metadata = << >>

CalendarSpec == CalendarInit /\ [][CalendarNext]_vars

\* ------------------------------------------------------------------------
\* The policy store: reindexing and deletion, served by other threads of the
\* same process while query_ollama runs (the module-level index and metadata
\* are shared and no lock guards them)
\* ------------------------------------------------------------------------
\* A set of document ids in the order PolicyDocument.query.all() returns them
RECURSIVE DocsInOrder(_)
DocsInOrder(D) ==
  IF D = {} THEN << >>
  ELSE LET d == CHOOSE x \in D : \A y \in D : x <= y
       IN << d >> \o DocsInOrder(D \ { d })

\* The metadata ingest_policy_document builds for the chunks of one document
NewMetadata(document_id) ==
  [ i \in 1..Len(DocChunks(document_id)) |->
      [document_id |-> document_id, text |-> DocChunks(document_id)[i],
       embedding |-> EmbedChunk(DocChunks(document_id)[i])] ]

\* reindex_policies, up to the first assignment of initialize_faiss_index:
\* _faiss_index is read from disk when both files exist, else created empty
reindex_policies ==
  /\ reindex.pc = "idle"
  /\ Len(reindex.done) < MaxReindex
  /\ faiss_index' = IF index_files.exists THEN index_files.index ELSE << >>
  /\ reindex' = [reindex EXCEPT !.pc = "initializing"]
  /\ UNCHANGED << shifts, ollama_queries, schedule_snapshots, chunk_metadata,
                  index_files, policy_documents, pc, route, user_query, model_to_use,
                  schedule_context, policy_context, gen_calls, gen_result,
                  ai_response_text, schedule_updates, item_idx, session, reply,
                  served, hist, appliers >>

\* initialize_faiss_index, second assignment: _chunk_metadata is loaded from
\* disk (or emptied); reindex_policies then lists the stored documents
initialize_faiss_index ==
  /\ reindex.pc = "initializing"
  /\ chunk_metadata' = IF index_files.exists THEN index_files.meta ELSE << >>
  /\ reindex' = [reindex EXCEPT !.pc = "documents",
                                !.docs = DocsInOrder(policy_documents)]
  /\ UNCHANGED << shifts, ollama_queries, schedule_snapshots, faiss_index,
                  index_files, policy_documents, pc, route, user_query, model_to_use,
                  schedule_context, policy_context, gen_calls, gen_result,
                  ai_response_text, schedule_updates, item_idx, session, reply,
                  served, hist, appliers >>

\* ingest_policy_document, up to _faiss_index.add(arr)
ingest_policy_document ==
  /\ reindex.pc = "documents"
  /\ reindex.docs # << >>
  /\ LET new_metadata == NewMetadata(Head(reindex.docs))
     IN /\ faiss_index' = faiss_index \o
                            [ i \in 1..Len(new_metadata) |-> new_metadata[i].embedding ]
        /\ reindex' = [reindex EXCEPT !.pc = "added", !.new_metadata = new_metadata]
  /\ UNCHANGED << shifts, ollama_queries, schedule_snapshots, chunk_metadata,
                  index_files, policy_documents, pc, route, user_query, model_to_use,
                  schedule_context, policy_context, gen_calls, gen_result,
                  ai_response_text, schedule_updates, item_idx, session, reply,
                  served, hist, appliers >>

\* ingest_policy_document, the rest: _chunk_metadata.extend(new_metadata) and
\* save_faiss_index()
save_faiss_index ==
  /\ reindex.pc = "added"
  /\ chunk_metadata' = chunk_metadata \o reindex.new_metadata
  /\ index_files' = [exists |-> TRUE, index |-> faiss_index, meta |-> chunk_metadata']
  /\ reindex' = [reindex EXCEPT !.pc = "documents", !.docs = Tail(reindex.docs),
                                !.new_metadata = << >>]
  /\ UNCHANGED << shifts, ollama_queries, schedule_snapshots, faiss_index,
                  policy_documents, pc, route, user_query, model_to_use,
                  schedule_context, policy_context, gen_calls, gen_result,
                  ai_response_text, schedule_updates, item_idx, session, reply,
                  served, hist, appliers >>

\* reindex_policies returns once every document is processed; done records the
\* documents it indexed and _faiss_index.ntotal at its end
reindex_done ==
  /\ reindex.pc = "documents"
  /\ reindex.docs = << >>
  /\ reindex' = [reindex EXCEPT !.pc = "idle",
                   !.done = Append(reindex.done,
                                   [documents |-> policy_documents,
                                    ntotal |-> Len(faiss_index)])]
  /\ UNCHANGED << shifts, ollama_queries, schedule_snapshots, faiss_index, chunk_metadata,
                  index_files, policy_documents, pc, route, user_query, model_to_use,
                  schedule_context, policy_context, gen_calls, gen_result,
                  ai_response_text, schedule_updates, item_idx, session, reply,
                  served, hist, appliers >>

\* delete_policy: the row (and, by cascade, its PolicyChunk rows) is deleted
\* and committed; the index and its metadata are not touched
delete_policy(policy_id, ok) ==
  /\ policy_id \in policy_documents
  /\ policy_documents' = IF ok THEN policy_documents \ { policy_id } ELSE policy_documents
  /\ UNCHANGED << shifts, ollama_queries, schedule_snapshots, faiss_index, chunk_metadata,
                  index_files, reindex, pc, route, user_query, model_to_use,
                  schedule_context, policy_context, gen_calls, gen_result,
                  ai_response_text, schedule_updates, item_idx, session, reply,
                  served, hist, appliers >>

\* The policy search of a request on its way, with the policy store changing
\* under it
PolicyRequestStep ==
  \/ Normalize(FALSE)
  \/ AssembleContext(FALSE)
  \/ \E embed_ok \in BOOLEAN : PolicySearch("ok", embed_ok)
  \/ SendGenerate([kind |-> "ok", text |-> << Prose >>, body |-> "none"])
  \/ ReceiveGenerate
  \/ LogInteraction(TRUE)
  \/ Interpret
  \/ Reply
  \/ Finish

PolicyNext ==
  \/ SubmitQuery(Q_LIST, OLLAMA_DEFAULT_MODEL)
  \/ reindex_policies
  \/ initialize_faiss_index
  \/ ingest_policy_document
  \/ save_faiss_index
  \/ reindex_done
  \/ \E policy_id \in PolicyDocuments, ok \in BOOLEAN : delete_policy(policy_id, ok)
  \/ PolicyRequestStep

PolicySpec == Init /\ [][PolicyNext]_vars


\* ------------------------------------------------------------------------
\* apply_schedule_updates of several requests at once, each in its own
\* transaction under read committed: a query sees the rows committed so far
\* ------------------------------------------------------------------------
\* The change-lists of one item the requests apply
ConcurrentItems ==
  { Obj("dq", "Paul Rocco", "2025-04-01", "Afternoon"),
    Obj("dq", "Dana Lee", "2025-04-01", "Night"),
    Obj("dq", "Paul Rocco", "2025-04-01", "Evening") }

\* lines 276-305: request r enters the loop with its item; window0 records the
\* committed entries of the employee in the item's window at that moment
apply_schedule_updates(r, item) ==
  /\ appliers[r].pc = "idle"
  /\ appliers' = [appliers EXCEPT ![r] =
        [pc |-> "begun", item |-> item, existing |-> {},
         window0 |-> ExistingShifts(shifts, EmployeeByName(item.employee),
                                    StartTime(StrpTime(item.date), item.shift_type),
                                    EndTime(StrpTime(item.date), item.shift_type))]]
  /\ UNCHANGED << shifts, ollama_queries, schedule_snapshots, faiss_index, chunk_metadata,
                  policy_vars, pc, request_vars, context_vars, gen_vars, apply_vars,
                  reply, served, hist >>

\* lines 307-312: the existing-shift query of request r reads the committed rows
existing_shift_query(r) ==
  /\ appliers[r].pc = "begun"
  /\ LET item == appliers[r].item
     IN appliers' = [appliers EXCEPT ![r].pc = "queried",
           ![r].existing = ExistingShifts(shifts, EmployeeByName(item.employee),
                                          StartTime(StrpTime(item.date), item.shift_type),
                                          EndTime(StrpTime(item.date), item.shift_type))]
  /\ UNCHANGED << shifts, ollama_queries, schedule_snapshots, faiss_index, chunk_metadata,
                  policy_vars, pc, request_vars, context_vars, gen_vars, apply_vars,
                  reply, served, hist >>

\* lines 314-330: request r overwrites the row its query returned, or inserts
\* a new row when it returned none, and commits
commit_schedule_updates(r) ==
  /\ appliers[r].pc = "queried"
  /\ LET item == appliers[r].item
         start_time == StartTime(StrpTime(item.date), item.shift_type)
         end_time == EndTime(StrpTime(item.date), item.shift_type)
     IN IF appliers[r].existing = {}
        THEN shifts' = shifts \cup { NewShift(shifts, EmployeeByName(item.employee),
                                             start_time, end_time) }
        ELSE \E existing_shift \in appliers[r].existing :
               shifts' = { IF s.id = existing_shift.id
                           THEN [s EXCEPT !.start_time = start_time, !.end_time = end_time]
                           ELSE s : s \in shifts }
  /\ appliers' = [appliers EXCEPT ![r].pc = "done"]
  /\ UNCHANGED << ollama_queries, schedule_snapshots, faiss_index, chunk_metadata,
                  policy_vars, pc, request_vars, context_vars, gen_vars, apply_vars,
                  reply, served, hist >>

ConcurrentNext ==
  \/ \E t \in CalendarTimes : CreateShift(NoEmployee, t[1], t[2])
  \/ \E r \in ConcurrentRequests, item \in ConcurrentItems : apply_schedule_updates(r, item)
  \/ \E r \in ConcurrentRequests : existing_shift_query(r)
  \/ \E r \in ConcurrentRequests : commit_schedule_updates(r)

ConcurrentSpec == Init /\ [][ConcurrentNext]_vars


\* ------------------------------------------------------------------------
\* Shift-type extraction over the texts built from the keyword vocabulary
\* ------------------------------------------------------------------------
\* The words of the query texts: the keywords of the shift-type table in
\* several letter cases, their parts, and words that are no keyword
ShiftTypeWords ==
  { "morning", "MoRnInG", "AM", "day", "shift", "afternoon", "Evening", "PM",
    "night", "Overnight", "tonight", "hello" }

\* The query texts: up to MaxWords words, alone or followed by a date
ShiftTypeTexts ==
  LET phrases == SeqsUpTo(ShiftTypeWords, MaxWords) \ { << >> }
  IN phrases \cup { ph \o << "April", "1" >> : ph \in phrases }

\* The Normalizer and the Context Assembler at work on such a text
ShiftTypeNext ==
  \/ \E text \in ShiftTypeTexts : SubmitQuery(text, OLLAMA_DEFAULT_MODEL)
  \/ Normalize(FALSE)
  \/ AssembleContext(FALSE)
  \/ Finish

ShiftTypeSpec == Init /\ [][ShiftTypeNext]_vars


\* ------------------------------------------------------------------------
\* Properties
\* ------------------------------------------------------------------------
\* C1: while the generation call of a query_ollama request has not returned a
\* completion (it is pending, timed out or failed), the request has changed no
\* calendar entry and holds no pending change; the Mutation Applier runs only
\* after a completion was received; and a request answered with a generation
\* failure leaves the calendar store equal to the store before the request.
C1_FailedGenerationLeavesCalendar ==
  /\ (route = "query_ollama" /\ ~hist.gen_ok)
        => (shifts = hist.shifts0 /\ session = NoSession /\ schedule_updates = << >>)
  /\ (pc \in { "logging", "interpreting", "applying", "replying" }) => hist.gen_ok
  /\ (pc = "responded" /\ route = "query_ollama" /\ gen_calls = 1
        /\ gen_result.kind # "ok")
        => (shifts = hist.shifts0 /\ reply.status \in { 500, 502, 504 })

\* C1 happens: a request on a non-empty calendar is answered with the timeout
\* error after its generation call hung
C1_Witness ==
  /\ pc = "responded" /\ route = "query_ollama"
  /\ gen_result.kind = "hang" /\ reply.status = 504
  /\ hist.shifts0 # {} /\ shifts = hist.shifts0

\* C2 as stated: every query_ollama request with a non-empty query reaches the
\* generation call whatever fails in normalizing, context assembly, logging or
\* interpreting; it is answered with success and the answer when that call
\* succeeds, and with an error only when that call fails.
C2_Original ==
  (pc = "responded" /\ route = "query_ollama" /\ user_query # << >>)
    => /\ gen_calls = 1
       /\ hist.gen_ok => (reply.status = 200 /\ reply.response = ai_response_text)
       /\ reply.status # 200 => gen_result.kind # "ok"

\* C3 as stated: when a store error was raised inside the loop of the Mutation
\* Applier, nothing of the batch is committed: the calendar store after the
\* batch equals the store before it.
C3_Original ==
  (pc \in { "replying", "responded" } /\ hist.store_errors # {})
    => shifts = hist.shifts0

\* C4 as stated: when the final commit of a batch fails, the calendar store is
\* as it was before the batch and the request is answered with an internal
\* error, not with a success reply that lists the updates.
C4_Original ==
  (pc = "responded" /\ hist.commit_failed)
    => (shifts = hist.shifts0 /\ reply.status = 500 /\ reply.schedule_updates = << >>)

\* The ChangeRequests that name a known employee, a valid date and one of the
\* four shift types
ValidRequests ==
  { [t |-> "obj", q |-> "dq", employee |-> e.name, date |-> d, shift_type |-> st] :
      e \in Employees, d \in { "2025-04-01", "2025-04-02" }, st \in ShiftTypes }

\* The entries of the request's employee that start inside its target window
InWindow(S, item) ==
  ExistingShifts(S, EmployeeByName(item.employee),
                 StartTime(StrpTime(item.date), item.shift_type),
                 EndTime(StrpTime(item.date), item.shift_type))

\* Applying item to the calendar S and then applying it again: the second
\* application changes nothing and exactly one entry is in the window
SecondApplicationIsNoop(S, item) ==
  \A s1 \in apply_item([shifts |-> S, failed |-> FALSE], item, FALSE, TRUE) :
    \A s2 \in apply_item(s1, item, FALSE, TRUE) :
      s2 = s1 /\ Cardinality(InWindow(s2.shifts, item)) = 1

\* The calendars the applier can start from: the store between two requests,
\* and the session of a batch in progress
Calendars ==
  (IF pc = "idle" THEN { shifts } ELSE {})
  \cup (IF pc = "applying" THEN { session.shifts } ELSE {})

SameItemTwice ==
  /\ Len(schedule_updates) = 2
  /\ schedule_updates[1] = schedule_updates[2]
  /\ schedule_updates[1] \in ValidRequests

\* C5 as stated: for any calendar state and any valid ChangeRequest, applying
\* the request a second time does not change the calendar, and after both
\* applications exactly one entry of the employee starts inside the window.
C5_Original ==
  \A S \in Calendars : \A item \in ValidRequests : SecondApplicationIsNoop(S, item)

\* C5, amended: for a calendar in which at most one entry of the employee
\* starts inside the target window, applying a valid ChangeRequest and then
\* applying it again (with no other write in between) does not change the
\* calendar the second time and leaves exactly one entry of that employee
\* starting inside the window; and a committed batch that holds the same
\* request twice leaves exactly one such entry in the store.
C5_UpsertIdempotent ==
  /\ \A S \in Calendars : \A item \in ValidRequests :
        Cardinality(InWindow(S, item)) <= 1 => SecondApplicationIsNoop(S, item)
  /\ (pc = "replying" /\ SameItemTwice /\ hist.store_errors = {}
        /\ hist.commit_tried /\ ~hist.commit_failed
        /\ Cardinality(InWindow(hist.shifts0, schedule_updates[1])) <= 1)
        => Cardinality(InWindow(shifts, schedule_updates[1])) = 1

\* C5 happens: a batch that holds the same request twice was committed on a
\* calendar that already had one entry in the window
C5_Witness ==
  /\ pc = "replying" /\ SameItemTwice /\ hist.store_errors = {}
  /\ hist.commit_tried /\ ~hist.commit_failed
  /\ Cardinality(InWindow(hist.shifts0, schedule_updates[1])) = 1
  /\ Cardinality(InWindow(shifts, schedule_updates[1])) = 1
  /\ shifts # hist.shifts0

\* An item that names an employee the directory does not have
UnknownEmployee(item) ==
  /\ item.t = "obj"
  /\ item.employee \notin ({ e.name : e \in Employees } \cup { None })

\* An item the applier can apply: a known employee, a date in the format,
\* a shift type
ValidItem(item) ==
  /\ item.t = "obj"
  /\ item.employee \in { e.name : e \in Employees }
  /\ item.date # None /\ StrpTime(item.date) >= 0
  /\ item.shift_type # None

\* The calendar S holds the entry the item asks for
Applied(S, item) ==
  \E s \in S :
    /\ s.employee_id = (CHOOSE e \in Employees : e.name = item.employee).id
    /\ s.start_time = StartTime(StrpTime(item.date), item.shift_type)
    /\ s.end_time = EndTime(StrpTime(item.date), item.shift_type)

BatchCommitted ==
  /\ pc = "replying" /\ route = "query_ollama"
  /\ hist.commit_tried /\ ~hist.commit_failed /\ hist.store_errors = {}

\* C6: the pass of the applier's loop over an item whose employee name matches
\* no employee of the directory writes nothing to the calendar, and when the
\* batch of such an item is committed every valid item of the batch has its
\* entry in the calendar store.
C6_UnknownEmployeeSkipped ==
  /\ [][ (pc = "applying" /\ item_idx <= Len(schedule_updates)
            /\ UnknownEmployee(schedule_updates[item_idx]))
          => (session'.shifts = session.shifts /\ shifts' = shifts
              /\ pc' = "applying" /\ item_idx' = item_idx + 1) ]_vars
  /\ [](( BatchCommitted
           /\ \E i \in 1..Len(schedule_updates) : UnknownEmployee(schedule_updates[i]))
         => \A j \in 1..Len(schedule_updates) :
              ValidItem(schedule_updates[j]) => Applied(shifts, schedule_updates[j]))

\* C6 happens: a committed batch held an item with an unknown name and a valid
\* item, and only the valid item's entry was added
C6_Witness ==
  /\ BatchCommitted
  /\ \E i, j \in 1..Len(schedule_updates) :
        /\ UnknownEmployee(schedule_updates[i])
        /\ ValidItem(schedule_updates[j])
        /\ Applied(shifts, schedule_updates[j])
        /\ ~Applied(hist.shifts0, schedule_updates[j])
  /\ Cardinality(shifts) = Cardinality(hist.shifts0) + 1

claimed_detail(result) ==
  CASE result.kind = "conn" -> "str(e)"
    [] result.body = "json_error" -> "error of the response body"
    [] result.body = "text" -> "text of the response body"
    [] OTHER -> "str(e)"

\* C8 as stated: a connection error or an error status of the generation call
\* ends the request with the ServiceUnavailable reply (502, never the timeout
\* reply), whose detail comes from the response body when the body has one and
\* is the text of the error otherwise.
C8_Original ==
  (pc = "responded" /\ route = "query_ollama" /\ gen_result.kind \in { "conn", "http" })
    => /\ reply.status = 502
       /\ gen_result.body # "json_not_object"
            => reply.error = "Ollama API error: " \o claimed_detail(gen_result)

\* C9: once the policy-search call of a request has raised or returned an
\* error status, the policy context is the empty string, the calendar context
\* of the prompt is not empty, the generation call is made (once), and the
\* request whose generation call returns a completion ends with the success
\* reply carrying the answer.
C9_PolicySearchFailureDegrades ==
  (route = "query_ollama" /\ hist.policy_failed)
    => /\ policy_context = ""
       /\ schedule_context # ""
       /\ pc = "generating" => ENABLED (\E result \in GenResults : SendGenerate(result))
       /\ pc # "generating" => gen_calls = 1
       /\ (pc = "responded" /\ hist.gen_ok)
            => (reply.status = 200 /\ reply.response = ai_response_text)

\* C9 happens: with a non-empty index the policy search failed and the request
\* was answered with success
C9_Witness ==
  /\ pc = "responded" /\ route = "query_ollama" /\ hist.policy_failed
  /\ Len(faiss_index) > 0
  /\ policy_context = "" /\ schedule_context # ""
  /\ gen_calls = 1 /\ reply.status = 200

\* C10 as stated: when the embedding service failed while the policy context
\* of the query was computed, the policy context is the empty string.
C10_Original ==
  (route = "query_ollama" /\ hist.embed_failed) => policy_context = ""

\* ------------------------------------------------------------------------
\* C11: a request of query_ollama whose generation call returned a completion
\* has, when it is answered and the log store took the write, added exactly
\* one record to the interaction log: the query, the answer of the reply and
\* the model, whatever happened to the change-list.  A request whose
\* generation call failed, and one whose log write failed, added none.
\* ------------------------------------------------------------------------
InteractionRecord ==
  [employee_id |-> 1, query |-> user_query, response |-> ai_response_text,
   model_used |-> model_to_use]

C11_OneRecordPerAnsweredRequest ==
  (route = "query_ollama" /\ pc \in { "replying", "responded" }) =>
     /\ (hist.gen_ok /\ ~hist.log_failed) =>
           /\ ollama_queries = Append(hist.log0, InteractionRecord)
           /\ pc = "responded" => reply.response = ollama_queries[Len(ollama_queries)].response
     /\ (~hist.gen_ok \/ hist.log_failed) => ollama_queries = hist.log0

\* A request whose change-list failed to commit, answered with its record written
C11_Witness ==
  /\ route = "query_ollama" /\ pc = "responded" /\ reply.status = 200
  /\ hist.gen_ok /\ ~hist.log_failed /\ hist.commit_failed
  /\ Len(ollama_queries) = Len(hist.log0) + 1

\* ------------------------------------------------------------------------
\* C12: the outcome of a request of query_ollama whose generation call
\* returned a completion does not depend on the write of the interaction
\* record: with the write failed, as with the write done, the reply is the
\* success reply with the answer and the change-list read from it, the
\* change-list went through the applier, and the calendar is the one the
\* applier makes of the change-list (or the old one after a failed commit).
\* ------------------------------------------------------------------------
RECURSIVE SessionsAfter(_, _, _)
SessionsAfter(sessions, updates, i) ==
  IF i > Len(updates) THEN sessions
  ELSE SessionsAfter(UNION { apply_item(sess, updates[i], FALSE, TRUE) : sess \in sessions },
                     updates, i + 1)

RequestOutcome ==
  /\ reply = [status |-> 200, response |-> ai_response_text,
              schedule_updates |-> extract_schedule_updates(ai_response_text),
              error |-> ""]
  /\ hist.commit_tried <=> (reply.schedule_updates # << >>)
  /\ hist.commit_failed => shifts = hist.shifts0
  /\ ~hist.commit_tried => shifts = hist.shifts0
  /\ (hist.commit_tried /\ ~hist.commit_failed /\ hist.store_errors = {}) =>
        shifts \in { sess.shifts :
                       sess \in SessionsAfter({ [shifts |-> hist.shifts0, failed |-> FALSE] },
                                              reply.schedule_updates, 1) }

C12_LogFailureKeepsOutcome ==
  (route = "query_ollama" /\ pc = "responded" /\ hist.gen_ok) => RequestOutcome

\* The record could not be written and the change-list changed the calendar
C12_Witness ==
  /\ route = "query_ollama" /\ pc = "responded" /\ hist.gen_ok /\ hist.log_failed
  /\ reply.status = 200 /\ reply.schedule_updates # << >>
  /\ hist.commit_tried /\ ~hist.commit_failed
  /\ shifts # hist.shifts0
  /\ ollama_queries = hist.log0

\* ------------------------------------------------------------------------
\* C13 as stated: within a request of query_ollama the interaction record is
\* written only after the change-list was read from the answer and after
\* the applier is through with it, so while the handler is reading or
\* applying the change-list the log is still the one the request found.
\* ------------------------------------------------------------------------
C13_Original ==
  (route = "query_ollama" /\ pc \in { "interpreting", "applying" }) =>
     ollama_queries = hist.log0

\* ------------------------------------------------------------------------
\* C14 as stated: the interaction log is append-only; no step of the module
\* removes or changes a record that is in the log.
\* ------------------------------------------------------------------------
C14_Original ==
  [][\A i \in 1..Len(ollama_queries) :
        /\ Len(ollama_queries') >= i
        /\ ollama_queries'[i] = ollama_queries[i]]_vars

\* ------------------------------------------------------------------------
\* C15 as stated: when the generated text holds one well-formed array of
\* {employee, date, shift_type} objects between its first '[' and its last
\* ']', the change-list read from it is the list of those objects, with the
\* strings in double quotes and with the strings in single quotes.
\* ------------------------------------------------------------------------
\* The pieces between the first '[' and the last ']' of the text
Enclosed(text) == SubSeq(text, Find(text, "[") + 1, RFind(text, "]") - 1)

WellFormedArray(text) ==
  /\ Find(text, "[") # 0 /\ RFind(text, "]") > Find(text, "[")
  /\ Enclosed(text) # << >>
  /\ \A i \in 1..Len(Enclosed(text)) :
        LET x == Enclosed(text)[i]
        IN /\ x.t = "obj" /\ x.q \in { "dq", "sq" }
           /\ x.employee # None /\ x.date # None /\ x.shift_type # None

SameObjects(updates, objects) ==
  /\ Len(updates) = Len(objects)
  /\ \A i \in 1..Len(objects) :
        /\ updates[i].t = "obj"
        /\ updates[i].employee = objects[i].employee
        /\ updates[i].date = objects[i].date
        /\ updates[i].shift_type = objects[i].shift_type

C15_Original ==
  (/\ route = "query_ollama"
   /\ pc \in { "applying", "replying", "responded" }
   /\ hist.gen_ok
   /\ WellFormedArray(ai_response_text)) =>
     SameObjects(schedule_updates, Enclosed(ai_response_text))

\* ------------------------------------------------------------------------
\* C16: generated text with no '[', with no ']', with its last ']' not after
\* its first '[', or with a bracketed part that json.loads rejects, gives the
\* empty change-list without an exception leaving the handler: the applier
\* does not run, the calendar stays as it was and the request ends with the
\* success reply.
\* ------------------------------------------------------------------------
NoChangeList(text) ==
  \/ Find(text, "[") = 0
  \/ RFind(text, "]") = 0
  \/ RFind(text, "]") <= Find(text, "[")
  \/ JsonLoads(SubSeq(text, Find(text, "["), RFind(text, "]"))).raised

C16_MalformedChangeListIsEmpty ==
  (/\ route = "query_ollama" /\ hist.gen_ok
   /\ pc \in { "applying", "replying", "responded" }
   /\ NoChangeList(ai_response_text)) =>
     /\ pc # "applying"
     /\ schedule_updates = << >>
     /\ ~hist.commit_tried /\ hist.store_errors = {}
     /\ shifts = hist.shifts0
     /\ pc = "responded" =>
           reply = [status |-> 200, response |-> ai_response_text,
                    schedule_updates |-> << >>, error |-> ""]

\* A bracketed part that did not parse, answered with the success reply while
\* the calendar holds an entry
C16_Witness ==
  /\ route = "query_ollama" /\ pc = "responded" /\ hist.gen_ok
  /\ hist.parse_failed
  /\ reply.status = 200 /\ reply.schedule_updates = << >>
  /\ shifts # {} /\ shifts = hist.shifts0

\* One bracket without the other, answered with the success reply
C16_WitnessOneBracket ==
  /\ route = "query_ollama" /\ pc = "responded" /\ hist.gen_ok
  /\ (Find(ai_response_text, "[") = 0) # (RFind(ai_response_text, "]") = 0)
  /\ reply.status = 200

\* ------------------------------------------------------------------------
\* C17 as stated: every element of the schedule_updates of the success reply
\* is an object with an employee name, a date string and a shift-type label;
\* an array element that lacks one of the three, or is no object, was dropped.
\* ------------------------------------------------------------------------
HasAllFields(x) ==
  /\ x.t = "obj"
  /\ x.employee # None /\ x.date # None /\ x.shift_type # None

C17_Original ==
  (route = "query_ollama" /\ pc = "responded" /\ reply.status = 200) =>
     \A i \in 1..Len(reply.schedule_updates) : HasAllFields(reply.schedule_updates[i])

\* ------------------------------------------------------------------------
\* C18: every entry of the calendar store, and every entry of the session
\* the applier is writing, ends after it starts; a write that would break
\* this is rejected: the insert and the overwrite of the applier, the create
\* and the update of the shift interface, the restore of a snapshot.
\* ------------------------------------------------------------------------
C18_EndAfterStart ==
  /\ \A s \in shifts : s.end_time > s.start_time
  /\ pc = "applying" => \A s \in session.shifts : s.end_time > s.start_time
  /\ \A i \in 1..Len(schedule_snapshots) :
        \A s \in schedule_snapshots[i] : s.end_time > s.start_time

\* A calendar with an entry moved by an update, after a request that went
\* through the applier
C18_Witness ==
  /\ pc = "idle" /\ served = 1
  /\ Len(schedule_snapshots) = 1
  /\ \E s \in shifts : s.start_time = At(0, 16) /\ s.end_time = At(0, 22)
  /\ \E s \in shifts : s.start_time = At(0, 12) /\ s.end_time = At(0, 16)

\* ------------------------------------------------------------------------
\* C19 as stated: when a month-level context matches at least one entry, the
\* names on its leaderboard line are exactly the employees of the directory
\* whose number of matched entries is the largest over all employees: one
\* name for a single maximum, all the tied names otherwise, no other name.
\* ------------------------------------------------------------------------
\* The number of matched entries of an employee of the directory
EntriesOf(rel, e) == Cardinality({ s \in rel : s.employee_id = e.id })

\* The employees with the largest number of matched entries
EmployeesWithMost(rel) ==
  { e \in Employees :
      EntriesOf(rel, e) > 0 /\ \A f \in Employees : EntriesOf(rel, f) <= EntriesOf(rel, e) }

\* The names of the leaderboard line of the month-level context of April
LeaderboardNames(S) ==
  LET tops == top_emps(month_shifts(S, 4))
  IN { tops[i] : i \in 1..Len(tops) }

C19_Original ==
  (/\ route = "query_ollama" /\ pc = "policy" /\ user_query = Q_MONTH
   /\ month_shifts(shifts, 4) # {}) =>
     /\ schedule_context = month_context(month_shifts(shifts, 4), 4, None)
     /\ LeaderboardNames(shifts) = { e.name : e \in EmployeesWithMost(month_shifts(shifts, 4)) }

\* ------------------------------------------------------------------------
\* C20 as stated: for the query "Who is working the most morning shifts this
\* month" the calendar context that goes into the prompt is the month-level
\* context of the current month over its Morning entries, with the
\* leaderboard of the employees with the most morning shifts.
\* ------------------------------------------------------------------------
\* The entries of the current month that start in the Morning hours
MorningEntries(S) ==
  { s \in month_shifts(S, MonthOf(Today)) : InHourBucket(s.start_time, "Morning") }

C20_Original ==
  (/\ route = "query_ollama" /\ pc = "policy" /\ user_query = Q_MOST
   /\ MorningEntries(shifts) # {}) =>
     schedule_context = month_context(MorningEntries(shifts), MonthOf(Today), "Morning")

\* ------------------------------------------------------------------------
\* C21 as stated: the calendar context of the prompt is never the empty
\* string, and when the query names a month and no entry of the month
\* matches the shift type of the query, the context is the text "No shifts
\* found for <month> <year>", with " matching type <type>" for a shift type,
\* not an error text.
\* ------------------------------------------------------------------------
\* The query is answered with the month-level context of the month it names
NamesMonth(query) ==
  /\ extract_intent(query) \notin { "query", "replace" }
  /\ parse_month_year_from_query(query).year # 0

\* The entries of that month in the hours of the shift type of the query
MatchedOfMonth(S, query) ==
  { s \in month_shifts(S, parse_month_year_from_query(query).month) :
      InHourBucket(s.start_time, parse_shift_type_from_query(query)) }

C21_Original ==
  (route = "query_ollama" /\ pc = "policy") =>
     /\ schedule_context # ""
     /\ (NamesMonth(user_query) /\ MatchedOfMonth(shifts, user_query) = {}) =>
           schedule_context = month_context({}, parse_month_year_from_query(user_query).month,
                                            parse_shift_type_from_query(user_query))

\* ------------------------------------------------------------------------
\* C22 as stated: each extraction of the Normalizer returns a result for
\* every query text and never raises; a query without a date gives the date
\* range None.  So, the store working, no request ends in the Normalizer.
\* ------------------------------------------------------------------------
C22_Original ==
  route = "query_ollama" =>
     /\ ~extract_dates(user_query).raised
     /\ ~hist.nlu_failed

\* C23: whenever a policy search can observe them, the index and its metadata
\* are in step: the same length, and position i of one is the chunk of
\* position i of the other
InStep(index, metadata) ==
  /\ Len(index) = Len(metadata)
  /\ \A i \in 1..Len(index) : index[i] = metadata[i].embedding

C23_Original ==
  (route = "query_ollama" /\ pc = "policy") => InStep(faiss_index, chunk_metadata)

\* C24: the Context Assembler and the Mutation Applier use the same hour
\* windows: an entry is selected by the context for (day, shift type) exactly
\* when the applier treats it as the existing entry of its employee for that
\* day and shift type
SameWindows(S) ==
  \A s \in S : \A day \in { 0, 1 } : \A shift_type \in ShiftTypes :
     (s \in relevant_shifts(S, day, shift_type))
       <=> (s \in ExistingShifts(S, s.employee_id, StartTime(day, shift_type),
                                 EndTime(day, shift_type)))

C24_Original == SameWindows(shifts)

\* C25: shift-type extraction maps every keyword synonym of the table, in any
\* letter case, to its canonical category, the first matching category in
\* table order winning; a text with no keyword yields None
ShiftTypeTable ==
  << [category |-> "Morning", keywords |-> { << "morning" >>, << "am", "shift" >>, << "day", "shift" >> }],
     [category |-> "Afternoon", keywords |-> { << "afternoon" >> }],
     [category |-> "Evening", keywords |-> { << "evening" >>, << "pm", "shift" >> }],
     [category |-> "Night", keywords |-> { << "night" >>, << "overnight" >> }] >>

\* The keyword occurs in the text, letter case apart: as words of their own
\* (the pattern table of the Normalizer), or inside a word (the containment
\* test of the Context Assembler's parser)
OccursAsWords(text, keyword) ==
  \E i \in 1..Len(text) :
     /\ i + Len(keyword) - 1 <= Len(text)
     /\ \A j \in 1..Len(keyword) : Lower(text[i + j - 1]) = keyword[j]

OccursInside(text, keyword) ==
  \/ OccursAsWords(text, keyword)
  \/ Len(keyword) = 1 /\ \E i \in 1..Len(text) : SubstringOf(keyword[1], Lower(text[i]))

CategoriesOf(text, inside) ==
  { k \in DOMAIN ShiftTypeTable :
      \E keyword \in ShiftTypeTable[k].keywords :
         IF inside THEN OccursInside(text, keyword) ELSE OccursAsWords(text, keyword) }

Canonical(text, inside) ==
  IF CategoriesOf(text, inside) = {} THEN None
  ELSE ShiftTypeTable[CHOOSE k \in CategoriesOf(text, inside) :
                         \A j \in CategoriesOf(text, inside) : k <= j].category

C25_WitnessNoKeyword ==
  /\ route = "query_ollama"
  /\ pc = "policy"
  /\ user_query = << "hello", "shift", "April", "1" >>
  /\ extract_shift_type(user_query) = None

\* C26: two requests that run concurrently and each apply the identical
\* ChangeRequest to a calendar with no entry in that window leave exactly one
\* entry of that employee with its start in the window
C26_Original ==
  \A r1, r2 \in ConcurrentRequests :
     ( /\ r1 # r2
       /\ appliers[r1].pc = "done" /\ appliers[r2].pc = "done"
       /\ appliers[r1].item = appliers[r2].item
       /\ appliers[r1].window0 = {} /\ appliers[r2].window0 = {} )
     => Cardinality(InWindow(shifts, appliers[r1].item)) = 1

\* C27: calendar mutations are applied only for requests whose query has the
\* intent approve: a request with another intent leaves the calendar store as
\* it found it, even when the generated text holds a well-formed change-list
C27_Original ==
  (route = "query_ollama" /\ pc \in { "replying", "responded" }
     /\ extract_intent(user_query) # "approve")
    => shifts = hist.shifts0

\* C30: every entry the applier creates or overwrites spans exactly one of
\* the four canonical windows; a ChangeRequest whose shift_type is none of
\* Morning, Afternoon, Evening, Night causes no calendar write
SpansCanonicalWindow(s) ==
  \E day \in { 0, 1 }, shift_type \in ShiftTypes :
     /\ s.start_time = StartTime(day, shift_type)
     /\ s.end_time = EndTime(day, shift_type)

C30_Original ==
  (route = "query_ollama" /\ pc \in { "replying", "responded" }) =>
     \A s \in shifts \ hist.shifts0 : SpansCanonicalWindow(s)

\* C28: a reindex resets the vector index before rebuilding it: after a
\* reindex in which every document is processed, the index and its metadata
\* hold exactly the chunks of the documents stored, so reindexing an unchanged
\* document set twice leaves as many vectors as reindexing it once
StoredChunks(documents) ==
  UNION { { NewMetadata(d)[i] : i \in 1..Len(NewMetadata(d)) } : d \in documents }

C28_Original ==
  /\ \A n \in 1..Len(reindex.done) :
        reindex.done[n].ntotal = Cardinality(StoredChunks(reindex.done[n].documents))
  /\ \A n, k \in 1..Len(reindex.done) :
        reindex.done[n].documents = reindex.done[k].documents
          => reindex.done[n].ntotal = reindex.done[k].ntotal

\* C29: policy chunks disappear with their document: once a policy document
\* is deleted, no policy search returns a chunk of it, so the policy context
\* of a query names no chunk of a document that is not stored
SearchHits ==
  search_policy_chunks(user_query, TopK, faiss_index, chunk_metadata, TRUE)

C29_Original ==
  (route = "query_ollama" /\ pc = "policy") =>
     \A i \in 1..Len(SearchHits) : SearchHits[i].document_id \in policy_documents

====
